---- MODULE Spec2Model ----
(***************************************************************************)
(* Session-scoped task store of app/main.py: the in-memory repository,     *)
(* the service layer over it and the HTTP endpoints that call the service. *)
(*                                                                         *)
(* Representation of Python values:                                        *)
(*   - a str is the sequence of its character codes ("Bug" is              *)
(*     <<66, 117, 103>>), so that lower(), strip(), len() and "in" are     *)
(*     computed and not assumed;                                           *)
(*   - a value that may be None is a sequence of length at most one:       *)
(*     None is << >> and the value v is <<v>>;                             *)
(*   - a dict is a function from its keys to its values;                   *)
(*   - a list is a sequence.                                               *)
(***************************************************************************)
EXTENDS Integers, Sequences, FiniteSets, TLC

VARIABLES storage, clock, nextId, last, writes, owner, lock, th

vars == <<storage, clock, nextId, last, writes, owner, lock, th>>

\* ----------------------------------------------------------------- bounds
\* Number of requests of a run that change the storage.
MaxWrites == 2
\* Last instant of the clock, counted in half seconds.
MaxClock == 1
\* Number of tasks stored before the concurrent requests start.
MaxPreset == 2

\* ------------------------------------------------------ python primitives
None == << >>
Some(v) == <<v>>
IsNone(o) == o = None
Val(o) == o[1]

\* Keys of the repository: the session cookies the clients send.
Sessions == {"s1", "s2"}

\* The threads of the pool that runs the endpoints (they are plain "def"
\* functions, which the framework runs on worker threads).
Threads == {"t1", "t2"}

\* Ids asked for by the clients: every id the generator has handed out so
\* far, and 0, an id it never hands out.
TaskIds == 0..(nextId - 1)

\* str.lower() on one character code (ASCII).
LowerChar(c) == IF c >= 65 /\ c <= 90 THEN c + 32 ELSE c
\* str.lower()
Lower(s) == [i \in 1..Len(s) |-> LowerChar(s[i])]

\* Character codes str.strip() removes: space, \t, \n, \v, \f, \r.
Whitespace == {32, 9, 10, 11, 12, 13}

RECURSIVE LStrip(_)
LStrip(s) == IF s # << >> /\ Head(s) \in Whitespace THEN LStrip(Tail(s)) ELSE s

RECURSIVE RStrip(_)
RStrip(s) ==
    IF s # << >> /\ s[Len(s)] \in Whitespace
    THEN RStrip(SubSeq(s, 1, Len(s) - 1))
    ELSE s

\* str.strip()
Strip(s) == RStrip(LStrip(s))

\* q in s, for two strs
Contains(s, q) ==
    \E i \in 0..(Len(s) - Len(q)) : SubSeq(s, i + 1, i + Len(q)) = q

\* datetime.isoformat() of the instant t: the seconds, and the fractional
\* part only when it is not zero ("...:07" but "...:07.5"). The seconds are
\* one digit here (the real field is zero padded to a fixed width), and the
\* fraction one digit instead of six.
IsoFormat(t) ==
    <<48 + (t \div 2)>> \o (IF t % 2 = 0 THEN << >> ELSE <<46, 53>>)


\* ----------------------------------------------------------------- enums
\* TaskStatus
TaskStatus == {"PENDING", "IN_PROGRESS", "COMPLETED", "CANCELLED"}

\* ---------------------------------------------------------------- models
\* Field(min_length=3, max_length=200) of title, Field(max_length=1000) of
\* description, Field(ge=1, le=4) and the default of priority.
TitleMinLength == 3
TitleMaxLength == 200
DescriptionMaxLength == 1000
PriorityMin == 1
PriorityMax == 4
PriorityDefault == 2

\* d.get(k, default), for a dict d
Get(d, k, default) == IF k \in DOMAIN d THEN d[k] ELSE default

\* title: str = Field(..., min_length=3, max_length=200) with the validator
\* title_not_empty: the length is checked on the value as sent, then the
\* validator rejects a blank value. o is the value sent, never None.
TitleOk(o) ==
    /\ ~IsNone(o)
    /\ Len(Val(o)) >= TitleMinLength
    /\ Len(Val(o)) <= TitleMaxLength
    /\ Strip(Val(o)) # << >>

DescriptionOk(o) == IsNone(o) \/ Len(Val(o)) <= DescriptionMaxLength

PriorityOk(o) == ~IsNone(o) /\ Val(o) >= PriorityMin /\ Val(o) <= PriorityMax

\* TaskCreate(**body): whether the body of POST /tasks is accepted. A key
\* the body does not carry takes its default; title is required; title and
\* priority are not Optional, so null is refused for them; tags is
\* Optional[List[str]], so null is accepted.
TaskCreateOk(body) ==
    /\ "title" \in DOMAIN body
    /\ TitleOk(body.title)
    /\ DescriptionOk(Get(body, "description", None))
    /\ PriorityOk(Get(body, "priority", Some(PriorityDefault)))

\* TaskCreate(**body).model_dump(): every field, the title stripped by
\* title_not_empty. Keys of the body that are no field of TaskCreate (id,
\* status, created_at, ...) are ignored.
TaskCreateDump(body) ==
    [title       |-> Some(Strip(Val(body.title))),
     description |-> Get(body, "description", None),
     priority    |-> Get(body, "priority", Some(PriorityDefault)),
     tags        |-> Get(body, "tags", Some(<< >>)),
     due_date    |-> Get(body, "due_date", None)]

\* The fields of TaskUpdate.
UpdateFields == {"title", "description", "status", "priority", "tags", "due_date"}

\* TaskUpdate(**body): every field is Optional, so null is accepted for each;
\* a value that is not null is checked against the field's constraints.
TaskUpdateOk(body) ==
    /\ "title" \in DOMAIN body /\ ~IsNone(body.title) => TitleOk(body.title)
    /\ DescriptionOk(Get(body, "description", None))
    /\ "status" \in DOMAIN body /\ ~IsNone(body.status) => Val(body.status) \in TaskStatus
    /\ "priority" \in DOMAIN body /\ ~IsNone(body.priority) => PriorityOk(body.priority)

\* TaskUpdate(**body).model_dump(exclude_unset=True): the fields the body
\* carries, and only those, a title that is not null stripped by
\* title_not_empty_if_present (v.strip() if v else v).
TaskUpdateDump(body) ==
    [k \in DOMAIN body \cap UpdateFields |->
        IF k = "title" /\ ~IsNone(body[k]) /\ Val(body[k]) # << >>
        THEN Some(Strip(Val(body[k])))
        ELSE body[k]]

\* Task(**t): whether the stored dict t validates as the response model.
\* Task inherits title (with its length bounds and validator), description
\* and priority from TaskBase; status is a TaskStatus, tags a List[str],
\* neither of them Optional.
TaskOk(t) ==
    /\ TitleOk(t.title)
    /\ DescriptionOk(t.description)
    /\ PriorityOk(t.priority)
    /\ ~IsNone(t.status) /\ Val(t.status) \in TaskStatus
    /\ ~IsNone(t.tags)

\* Task(**t) of a dict that validates: the title goes through the validator
\* title_not_empty once more.
ToTask(t) == [t EXCEPT !.title = Some(Strip(Val(t.title)))]

\* ------------------------------------------------------------ repository
\* The dict keys of a stored task.
TaskKeys ==
    {"id", "title", "description", "priority", "tags", "due_date", "status",
     "created_at", "updated_at"}

\* Index of the first task of the list whose id is task_id, 0 when there is
\* none: next((t for t in tasks if t["id"] == task_id), None).
FirstWithId(tasks, task_id) ==
    IF \E i \in 1..Len(tasks) : tasks[i].id = task_id
    THEN CHOOSE i \in 1..Len(tasks) :
            /\ tasks[i].id = task_id
            /\ \A j \in 1..(i - 1) : tasks[j].id # task_id
    ELSE 0

\* list.remove(x), were it list.pop(): the list without its last element.
ListRemove_Last(tasks, x) == SubSeq(tasks, 1, Len(tasks) - 1)

\* list.remove(x): the list without its first element equal to x.
ListRemove(tasks, x) ==
    LET i == CHOOSE k \in 1..Len(tasks) :
                 /\ tasks[k] = x
                 /\ \A j \in 1..(k - 1) : tasks[j] # x
    IN  SubSeq(tasks, 1, i - 1) \o SubSeq(tasks, i + 1, Len(tasks))

\* find_all, were an unknown session served the list of a known one.
find_all_Shared(st, session_id) ==
    IF session_id \in DOMAIN st THEN st[session_id]
    ELSE IF DOMAIN st = {} THEN << >>
    ELSE st[CHOOSE s \in DOMAIN st : TRUE]

\* InMemoryTaskRepository.find_all
find_all(st, session_id) == Get(st, session_id, << >>)

\* InMemoryTaskRepository.find_by_id: the task, or None
find_by_id(st, session_id, task_id) ==
    LET tasks == Get(st, session_id, << >>)
        i == FirstWithId(tasks, task_id)
    IN  IF i = 0 THEN None ELSE Some(tasks[i])

\* create, were the task put at the head of the list.
create_Prepends(st, session_id, task) ==
    [s \in DOMAIN st \cup {session_id} |->
        IF s = session_id THEN <<task>> \o Get(st, s, << >>) ELSE st[s]]

\* InMemoryTaskRepository.create: the storage afterwards
create(st, session_id, task) ==
    [s \in DOMAIN st \cup {session_id} |->
        IF s = session_id THEN Append(Get(st, s, << >>), task) ELSE st[s]]

\* Merge, were every field the request does not carry reset to its default
\* (the update taken as a replacement of the task).
Merge_Replace(task, updates, now) ==
    [k \in DOMAIN task \cup DOMAIN updates \cup {"updated_at"} |->
        IF k = "updated_at" THEN now
        ELSE IF k \in DOMAIN updates THEN updates[k]
        ELSE IF k = "description" \/ k = "due_date" THEN None
        ELSE IF k = "priority" THEN Some(PriorityDefault)
        ELSE IF k = "tags" THEN Some(<< >>)
        ELSE task[k]]

\* Merge, were the stamp also written to created_at.
Merge_StampsCreated(task, updates, now) ==
    [k \in DOMAIN task \cup DOMAIN updates \cup {"updated_at"} |->
        IF k \in {"created_at", "updated_at"} THEN now
        ELSE IF k \in DOMAIN updates THEN updates[k]
        ELSE task[k]]

\* dict.update(updates), then the stamp of updated_at
Merge(task, updates, now) ==
    [k \in DOMAIN task \cup DOMAIN updates \cup {"updated_at"} |->
        IF k = "updated_at" THEN now
        ELSE IF k \in DOMAIN updates THEN updates[k]
        ELSE task[k]]

\* InMemoryTaskRepository.update: the storage afterwards and the task
\* returned (None when the id is not in the session's list). The task is
\* changed in place, in the list that holds it.
update(st, session_id, task_id, updates, now) ==
    LET tasks == Get(st, session_id, << >>)
        i == FirstWithId(tasks, task_id)
    IN  IF i = 0
        THEN [storage |-> st, task |-> None]
        ELSE LET new == Merge(tasks[i], updates, now)
             IN  [storage |-> [st EXCEPT ![session_id][i] = new],
                  task    |-> Some(new)]

\* delete, were the list cut at the task found: the task and every task
\* after it leave the list.
delete_Truncates(st, session_id, task_id) ==
    LET tasks == Get(st, session_id, << >>)
        i == FirstWithId(tasks, task_id)
    IN  IF i = 0
        THEN [storage |-> st, deleted |-> FALSE]
        ELSE [storage |-> [st EXCEPT ![session_id] = SubSeq(tasks, 1, i - 1)],
              deleted |-> TRUE]

\* delete, were the task found left in the list.
delete_Keeps(st, session_id, task_id) ==
    [storage |-> st,
     deleted |-> ~IsNone(find_by_id(st, session_id, task_id))]

\* InMemoryTaskRepository.delete: the storage afterwards and whether a task
\* was removed.
delete(st, session_id, task_id) ==
    LET found == find_by_id(st, session_id, task_id)
    IN  IF IsNone(found)
        THEN [storage |-> st, deleted |-> FALSE]
        ELSE [storage |-> [st EXCEPT ![session_id] = ListRemove(@, Val(found))],
              deleted |-> TRUE]

\* --------------------------------------------------------------- service
\* What a request ends in: the HTTP status and the JSON body, a list (of
\* the tasks for a list or a search, of the one record returned otherwise,
\* empty for an error and for 204).
Response(code, body) == [code |-> code, body |-> body]

\* HTTPException(status_code=...), and an exception no handler of the
\* service catches, which general_exception_handler answers with 500.
HttpError(code) == Response(code, << >>)
InternalError == Response(500, << >>)

\* A comprehension [t for t in tasks if Keep(t)] is SelectSeq(tasks, Keep).
\* [Task(**t) for t in tasks]: raises as soon as one dict does not validate.
TaskList(tasks) ==
    IF \A i \in 1..Len(tasks) : TaskOk(tasks[i])
    THEN Response(200, [i \in 1..Len(tasks) |-> ToTask(tasks[i])])
    ELSE InternalError

\* TaskService.get_all_tasks; status is the query parameter, None when the
\* request has none ("if status:" also skips the empty string).
get_all_tasks(st, session_id, status) ==
    LET tasks == find_all(st, session_id)
        Keep(t) == t.status = status
    IN  IF ~IsNone(status) /\ Val(status) # ""
        THEN TaskList(SelectSeq(tasks, Keep))
        ELSE TaskList(tasks)

\* TaskService.get_task_by_id
get_task_by_id(st, session_id, task_id) ==
    LET task == find_by_id(st, session_id, task_id)
    IN  IF IsNone(task) THEN HttpError(404)
        ELSE IF TaskOk(Val(task)) THEN Response(200, <<ToTask(Val(task))>>)
        ELSE InternalError

\* The dict create_task builds: the fresh id, the dumped fields, then
\* status, created_at and updated_at.
NewTask(id, dump, now) ==
    [k \in TaskKeys |->
        IF k = "id" THEN id
        ELSE IF k = "status" THEN Some("PENDING")
        ELSE IF k \in {"created_at", "updated_at"} THEN now
        ELSE dump[k]]

\* create_task, were a draft the session already holds answered with the
\* task stored for it and not stored again.
create_task_Once(st, session_id, task_data, id, now) ==
    LET task == NewTask(id, task_data, IsoFormat(now))
        tasks == find_all(st, session_id)
        Same(t) == \A f \in DOMAIN task_data : t[f] = task_data[f]
    IN  IF \E k \in 1..Len(tasks) : Same(tasks[k])
        THEN LET t == tasks[CHOOSE k \in 1..Len(tasks) : Same(tasks[k])]
             IN  [storage |-> st,
                  resp    |-> IF TaskOk(t) THEN Response(201, <<ToTask(t)>>)
                              ELSE InternalError]
        ELSE [storage |-> create(st, session_id, task),
              resp    |-> IF TaskOk(task) THEN Response(201, <<ToTask(task)>>)
                          ELSE InternalError]

\* TaskService.create_task: the storage afterwards and the response. id is
\* the value of uuid4(), now the clock read at the start.
create_task(st, session_id, task_data, id, now) ==
    LET task == NewTask(id, task_data, IsoFormat(now))
    IN  [storage |-> create(st, session_id, task),
         resp    |-> IF TaskOk(task) THEN Response(201, <<ToTask(task)>>)
                     ELSE InternalError]

\* update_task, without the check for an empty update_dict.
update_task_NoEmptyCheck(st, session_id, task_id, update_dict, now) ==
    LET r == update(st, session_id, task_id, update_dict, IsoFormat(now))
    IN  [storage |-> r.storage,
         resp    |-> IF IsNone(r.task) THEN HttpError(404)
                     ELSE IF TaskOk(Val(r.task))
                          THEN Response(200, <<ToTask(Val(r.task))>>)
                     ELSE InternalError]

\* TaskService.update_task: update_dict is the dump of the fields that were
\* set; now is the clock read under the lock.
update_task(st, session_id, task_id, update_dict, now) ==
    IF DOMAIN update_dict = {}
    THEN [storage |-> st, resp |-> HttpError(400)]
    ELSE LET r == update(st, session_id, task_id, update_dict, IsoFormat(now))
         IN  [storage |-> r.storage,
              resp    |-> IF IsNone(r.task) THEN HttpError(404)
                          ELSE IF TaskOk(Val(r.task))
                               THEN Response(200, <<ToTask(Val(r.task))>>)
                          ELSE InternalError]

\* delete_task, without the check of what the repository reports.
delete_task_NoCheck(st, session_id, task_id) ==
    [storage |-> delete(st, session_id, task_id).storage,
     resp    |-> Response(204, << >>)]

\* TaskService.delete_task
delete_task(st, session_id, task_id) ==
    LET r == delete(st, session_id, task_id)
    IN  [storage |-> r.storage,
         resp    |-> IF r.deleted THEN Response(204, << >>) ELSE HttpError(404)]

\* Number of tasks of the list with the status s: sum(1 for t in tasks if ...)
CountStatus(tasks, s) ==
    Cardinality({i \in 1..Len(tasks) : tasks[i].status = Some(s)})

\* TaskService.get_statistics
get_statistics(st, session_id) ==
    LET tasks == find_all(st, session_id)
    IN  Response(200,
          <<[total       |-> Len(tasks),
             pending     |-> CountStatus(tasks, "PENDING"),
             in_progress |-> CountStatus(tasks, "IN_PROGRESS"),
             completed   |-> CountStatus(tasks, "COMPLETED"),
             cancelled   |-> CountStatus(tasks, "CANCELLED")]>>)

\* The condition of the comprehension of search_tasks, for one task whose
\* title is a str.
SearchMatch(t, query_lower) ==
    \/ Contains(Lower(Val(t.title)), query_lower)
    \/ /\ ~IsNone(t.description)
       /\ Val(t.description) # << >>
       /\ Contains(Lower(Val(t.description)), query_lower)

\* TaskService.search_tasks: t["title"].lower() raises on a title that is
\* None, whatever the rest of the condition.
search_tasks(st, session_id, query) ==
    LET tasks == find_all(st, session_id)
        query_lower == Lower(query)
        Keep(t) == SearchMatch(t, query_lower)
    IN  IF \E i \in 1..Len(tasks) : IsNone(tasks[i].title)
        THEN InternalError
        ELSE TaskList(SelectSeq(tasks, Keep))

\* --------------------------------------------------------------- inputs
\* The strs the requests carry.
FixBug == <<70, 105, 120, 32, 66, 117, 103>>    \* "Fix Bug"
Other == <<79, 116, 104, 101, 114>>             \* "Other"
TooShort == <<65, 66>>                          \* "AB"
ABug == <<97, 32, 66, 85, 71>>                  \* "a BUG"
Due == <<49, 47, 49>>                           \* "1/1"
Tag == <<120>>                                  \* "x"
Padded == <<32, 32, 97, 32, 32>>                \* "  a  "

\* JSON bodies of POST /tasks: a dict from the keys sent to their values,
\* null being None.
CreateBodies ==
    {[title |-> Some(FixBug)],
     [title |-> Some(Other), description |-> Some(ABug), priority |-> Some(3),
      tags |-> Some(<<Tag>>), due_date |-> Some(Due)],
     [title |-> Some(FixBug), status |-> Some("COMPLETED"), id |-> Some(0)],
     [title |-> Some(FixBug), tags |-> None],
     [title |-> Some(TooShort)],
     [title |-> Some(FixBug), priority |-> Some(5)],
     [title |-> Some(Padded)],
     [description |-> Some(ABug)]}

\* JSON bodies of PUT /tasks/{task_id}.
UpdateBodies ==
    {[k \in {} |-> None],
     [priority |-> Some(1)],
     [title |-> Some(Other), status |-> Some("COMPLETED")],
     [description |-> None],
     [created_at |-> Some(IsoFormat(MaxClock)), id |-> Some(0)],
     [title |-> None],
     [status |-> None],
     [priority |-> None, tags |-> None, due_date |-> None],
     [title |-> Some(TooShort)],
     [title |-> Some(Padded)],
     [status |-> Some("DONE")]}

\* Values of the status parameter of PATCH /tasks/{task_id}/status.
PatchStatuses == TaskStatus \cup {"INVALID"}

\* Values of the status parameter of GET /tasks: none, the empty string, the
\* members of the enumeration and a string that is none of them.
StatusFilters == {None, Some(""), Some("pending")} \cup {Some(s) : s \in TaskStatus}

\* Values of the q parameter of GET /tasks/search.
Queries ==
    {<<98, 117>>,       \* "bu"
     <<66, 85>>,        \* "BU"
     <<116, 104>>,      \* "th"
     <<98>>}            \* "b"

\* ----------------------------------------------------------------- state
\* storage: InMemoryTaskRepository._storage, a dict from session id to the
\*          list of the session's tasks.
\* clock:   the value datetime.utcnow() returns, in half seconds.
\* nextId:  the next value of uuid4() (a fresh id on every call).
\* last:    the last request that changed the storage, and the response it
\*          ended with (a request that leaves the storage as it was leaves
\*          no trace in the state).
\* writes:  the number of requests that have changed the storage.
\* owner:   for every id handed out so far, the session of the request that
\*          created the task (history; the program does not keep it).
\* lock:    SESSION_LOCK: the thread that holds it, "" when it is free.
\* th:      for every worker thread, the request it serves: its position in
\*          the handler and the handler's local variables. The requests of
\*          Spec are served one after the other, each as one step, and
\*          leave lock and th as they are; ConcSpec below serves them step
\*          by step on two threads.
Request(op, session_id, task_id, resp) ==
    [op |-> op, sid |-> session_id, id |-> task_id, code |-> resp.code,
     body |-> resp.body]

\* The step of a request that ends with the storage st and the response
\* resp.
Serve(op, session_id, task_id, st, resp) ==
    /\ storage' = st
    /\ IF st = storage
       THEN UNCHANGED <<last, writes>>
       ELSE /\ writes < MaxWrites
            /\ writes' = writes + 1
            /\ last' = Request(op, session_id, task_id, resp)
    /\ UNCHANGED <<lock, th>>

\* A reference to a dict: to the task with the id in the session's list
\* (the dict the list holds, whatever its fields are now), or to a dict
\* that is in no list of the storage, which nothing changes any more.
Live(session_id, task_id) ==
    [live |-> TRUE, sid |-> session_id, id |-> task_id, task |-> << >>]
Frozen(task) == [live |-> FALSE, sid |-> "", id |-> 0, task |-> <<task>>]

\* The dict a reference leads to.
Deref(st, r) ==
    IF r.live THEN Val(find_by_id(st, r.sid, r.id)) ELSE r.task[1]

\* A reference to a list: to the list the storage holds for the session,
\* or to a list no other thread reaches (a list built by the handler, or
\* one the storage has let go of), given by the references it holds.
LiveList(session_id) == [live |-> TRUE, sid |-> session_id, items |-> << >>]
LocalList(items) == [live |-> FALSE, sid |-> "", items |-> items]

\* The references the list holds now.
Items(st, l) ==
    IF l.live
    THEN [k \in 1..Len(st[l.sid]) |-> Live(l.sid, st[l.sid][k].id)]
    ELSE l.items

\* self._storage.get(session_id, []): the session's own list, or a new
\* empty list when the session has none.
GetList(st, session_id) ==
    IF session_id \in DOMAIN st THEN LiveList(session_id) ELSE LocalList(<< >>)

\* A thread that serves no request.
Idle ==
    [pc |-> "idle", op |-> "none", sid |-> "", id |-> 0, arg |-> << >>,
     ref |-> None, list |-> LocalList(<< >>), sel |-> << >>, i |-> 0,
     acc |-> << >>, resp |-> Response(0, << >>),
     ord |-> 0, before |-> None, after |-> None, snaps |-> {}]

Init ==
    /\ storage = [s \in {} |-> << >>]
    /\ clock = 0
    /\ nextId = 1
    /\ writes = 0
    /\ owner = << >>
    /\ last = [op |-> "none", sid |-> "", id |-> 0, code |-> 0, body |-> << >>]
    /\ lock = ""
    /\ th = [t \in Threads |-> Idle]

\* Time passes.
Tick ==
    /\ clock < MaxClock
    /\ clock' = clock + 1
    /\ UNCHANGED <<storage, nextId, last, writes, owner, lock, th>>

\* ------------------------------------------------------------- endpoints
\* GET /tasks, were find_all self._storage.setdefault(session_id, []).
list_tasks_Registers ==
    \E session_id \in Sessions, status \in StatusFilters :
        /\ Serve("list", session_id, 0,
                 [s \in DOMAIN storage \cup {session_id} |->
                     Get(storage, s, << >>)],
                 get_all_tasks(storage, session_id, status))
        /\ UNCHANGED <<clock, nextId, owner>>

\* GET /tasks
list_tasks ==
    \E session_id \in Sessions, status \in StatusFilters :
        /\ Serve("list", session_id, 0, storage,
                 get_all_tasks(storage, session_id, status))
        /\ UNCHANGED <<clock, nextId, owner>>

\* The minimum length of q.
QueryMinLength == 2

\* What GET /tasks/search answers.
SearchResponse(st, session_id, q) ==
    IF Len(q) < QueryMinLength THEN HttpError(400)
    ELSE search_tasks(st, session_id, q)

\* GET /tasks/search
search ==
    \E session_id \in Sessions, q \in Queries :
        /\ Serve("search", session_id, 0, storage,
                 SearchResponse(storage, session_id, q))
        /\ UNCHANGED <<clock, nextId, owner>>

\* GET /tasks/stats
get_stats ==
    \E session_id \in Sessions :
        /\ Serve("stats", session_id, 0, storage,
                 get_statistics(storage, session_id))
        /\ UNCHANGED <<clock, nextId, owner>>

\* GET /tasks/{task_id}
get_task ==
    \E session_id \in Sessions, task_id \in TaskIds :
        /\ Serve("get", session_id, task_id, storage,
                 get_task_by_id(storage, session_id, task_id))
        /\ UNCHANGED <<clock, nextId, owner>>

\* What POST /tasks does with a body: 422 when TaskCreate refuses it.
CreateResult(st, session_id, body, id, now) ==
    IF TaskCreateOk(body)
    THEN create_task(st, session_id, TaskCreateDump(body), id, now)
    ELSE [storage |-> st, resp |-> HttpError(422)]

\* POST /tasks, were uuid4() to return the same value on every call.
post_task_SameId ==
    \E session_id \in Sessions, body \in CreateBodies :
        LET r == CreateResult(storage, session_id, body, 1, clock)
        IN  /\ Serve("create", session_id, 1, r.storage, r.resp)
            /\ nextId' = IF TaskCreateOk(body) THEN nextId + 1 ELSE nextId
            /\ owner' = IF TaskCreateOk(body) THEN Append(owner, session_id)
                        ELSE owner
            /\ UNCHANGED clock

\* POST /tasks
post_task ==
    \E session_id \in Sessions, body \in CreateBodies :
        LET r == CreateResult(storage, session_id, body, nextId, clock)
        IN  /\ Serve("create", session_id, nextId, r.storage, r.resp)
            /\ nextId' = IF TaskCreateOk(body) THEN nextId + 1 ELSE nextId
            /\ owner' = IF TaskCreateOk(body) THEN Append(owner, session_id)
                        ELSE owner
            /\ UNCHANGED clock

\* What PUT /tasks/{task_id} does with a body: 422 when TaskUpdate refuses it.
UpdateResult(st, session_id, task_id, body, now) ==
    IF TaskUpdateOk(body)
    THEN update_task(st, session_id, task_id, TaskUpdateDump(body), now)
    ELSE [storage |-> st, resp |-> HttpError(422)]

\* PUT /tasks/{task_id}
put_task ==
    \E session_id \in Sessions, task_id \in TaskIds, body \in UpdateBodies :
        LET r == UpdateResult(storage, session_id, task_id, body, clock)
        IN  /\ Serve("update", session_id, task_id, r.storage, r.resp)
            /\ UNCHANGED <<clock, nextId, owner>>

\* What PATCH /tasks/{task_id}/status does: 422 when status is no member of
\* TaskStatus, else update_task with TaskUpdate(status=status).
PatchResult(st, session_id, task_id, status, now) ==
    IF status \in TaskStatus
    THEN update_task(st, session_id, task_id, [status |-> Some(status)], now)
    ELSE [storage |-> st, resp |-> HttpError(422)]

\* PATCH /tasks/{task_id}/status
update_task_status ==
    \E session_id \in Sessions, task_id \in TaskIds, status \in PatchStatuses :
        LET r == PatchResult(storage, session_id, task_id, status, clock)
        IN  /\ Serve("patch", session_id, task_id, r.storage, r.resp)
            /\ UNCHANGED <<clock, nextId, owner>>

\* DELETE /tasks/{task_id}
delete_one ==
    \E session_id \in Sessions, task_id \in TaskIds :
        LET r == delete_task(storage, session_id, task_id)
        IN  /\ Serve("delete", session_id, task_id, r.storage, r.resp)
            /\ UNCHANGED <<clock, nextId, owner>>

\* delete_all_tasks, were it to give a partition to a session that has none.
delete_all_tasks_Creates(st, session_id) ==
    [s \in DOMAIN st \cup {session_id} |->
        IF s = session_id THEN << >> ELSE st[s]]

\* What DELETE /tasks does to the storage.
delete_all_tasks(st, session_id) ==
    IF session_id \in DOMAIN st
    THEN [st EXCEPT ![session_id] = << >>]
    ELSE st

\* DELETE /tasks
delete_all ==
    \E session_id \in Sessions :
        /\ Serve("delete_all", session_id, 0,
                 delete_all_tasks(storage, session_id), Response(204, << >>))
        /\ UNCHANGED <<clock, nextId, owner>>

Next ==
    \/ Tick
    \/ list_tasks
    \/ search
    \/ get_stats
    \/ get_task
    \/ post_task
    \/ put_task
    \/ update_task_status
    \/ delete_one
    \/ delete_all

Spec == Init /\ [][Next]_vars

\* ---------------------------------------------------- concurrent requests
\* The handlers again, one step per statement that reads or writes the
\* shared storage, on two threads that serve one request each. A step that
\* the lock covers ends with the release of the lock when it is the last
\* statement of the "with" block.

\* Bodies, ids, filters and queries of the concurrent requests.
ConcCreateBodies == {[title |-> Some(FixBug)], [title |-> Some(FixBug), tags |-> None]}
ConcUpdateBodies ==
    {[priority |-> Some(1)],
     [priority |-> Some(3), status |-> Some("COMPLETED")],
     [status |-> None]}
ConcPatchStatuses == {"IN_PROGRESS"}
ConcFilters == {None, Some("PENDING")}
ConcQueries == {<<98, 117>>}      \* "bu"
ConcIds == 1..MaxPreset

\* The storage after n creates under s1, served one after the other at
\* instant 0: the tasks the concurrent requests find.
RECURSIVE Preset(_)
Preset(n) ==
    IF n = 0 THEN [s \in {} |-> << >>]
    ELSE create_task(Preset(n - 1), "s1",
                     TaskCreateDump(IF n % 2 = 1
                                    THEN [title |-> Some(FixBug)]
                                    ELSE [title |-> Some(Other),
                                          description |-> Some(ABug)]),
                     n, 0).storage

ConcInit ==
    \E n \in 0..MaxPreset :
        /\ storage = Preset(n)
        /\ nextId = n + 1
        /\ owner = [i \in 1..n |-> "s1"]
        /\ clock = 0
        /\ writes = 0
        /\ last = [op |-> "none", sid |-> "", id |-> 0, code |-> 0, body |-> << >>]
        /\ lock = ""
        /\ th = [t \in Threads |-> Idle]

\* The reads, which take no lock.
ReadOps == {"get", "list", "search", "stats"}

\* What the read the thread serves answers when it is served in one piece
\* on the storage st.
Sequential(rec, st) ==
    CASE rec.op = "get" -> get_task_by_id(st, rec.sid, rec.id)
      [] rec.op = "list" -> get_all_tasks(st, rec.sid, rec.arg)
      [] rec.op = "search" -> search_tasks(st, rec.sid, rec.arg)
      [] rec.op = "stats" -> get_statistics(st, rec.sid)

\* History: every thread that is serving a read notes what its read would
\* answer on the storage as it stands after the step.
Observe(thr, st) ==
    [t \in Threads |->
        IF thr[t].op \in ReadOps /\ thr[t].pc # "done"
        THEN [thr[t] EXCEPT !.snaps = @ \cup {Sequential(thr[t], st)}]
        ELSE thr[t]]

\* A reference after a step that took tasks out of the lists: a dict that
\* left its list keeps the fields it had.
SettleRef(r, st, st2) ==
    IF r.live /\ IsNone(find_by_id(st2, r.sid, r.id))
    THEN Frozen(Deref(st, r))
    ELSE r

\* A reference to a list after such a step; cleared is the session whose
\* list the storage has replaced by a new one ("" when none was).
SettleList(l, st, st2, cleared) ==
    IF l.live
    THEN IF l.sid = cleared
         THEN LocalList([k \in 1..Len(st[l.sid]) |-> Frozen(st[l.sid][k])])
         ELSE l
    ELSE LocalList([k \in 1..Len(l.items) |-> SettleRef(l.items[k], st, st2)])

\* The threads' references after a step from st to st2.
Settle(thr, st, st2, cleared) ==
    [t \in Threads |->
        [thr[t] EXCEPT
            !.ref = IF @ = None THEN None ELSE Some(SettleRef(@[1], st, st2)),
            !.list = SettleList(@, st, st2, cleared),
            !.sel = [k \in 1..Len(@) |-> SettleRef(@[k], st, st2)]]]

\* The request of the thread ends with the response.
Finish(rec, resp) ==
    [rec EXCEPT !.pc = "done", !.resp = resp, !.ref = None,
                !.list = LocalList(<< >>), !.sel = << >>, !.i = 0,
                !.acc = << >>]

\* Task(**task): the response of a handler that returns the task.
Returned(task, code) ==
    IF TaskOk(task) THEN Response(code, <<ToTask(task)>>) ELSE InternalError

\* The steps that leave the storage, the ids and the lock as they are; thr
\* is what the step makes of the threads, a value worked out once.
Local(thr) ==
    /\ \E after \in {thr} : th' = Observe(after, storage)
    /\ UNCHANGED <<storage, clock, nextId, last, writes, owner, lock>>

\* POST /tasks arrives: TaskCreate(**body), then the first statements of
\* create_task, which read the clock, draw the id and build task_dict.
c_start ==
    \E t \in Threads, session_id \in Sessions, body \in ConcCreateBodies :
        /\ th[t].pc = "idle"
        /\ IF TaskCreateOk(body)
           THEN /\ th' = Observe(
                     [th EXCEPT ![t] =
                        [Idle EXCEPT
                           !.pc = "lock", !.op = "create", !.sid = session_id,
                           !.id = nextId,
                           !.ref = Some(Frozen(NewTask(nextId, TaskCreateDump(body),
                                                       IsoFormat(clock))))]],
                     storage)
                /\ nextId' = nextId + 1
                /\ owner' = Append(owner, session_id)
           ELSE /\ th' = Observe(
                     [th EXCEPT ![t] =
                        Finish([Idle EXCEPT !.op = "create", !.sid = session_id],
                               HttpError(422))],
                     storage)
                /\ UNCHANGED <<nextId, owner>>
        /\ UNCHANGED <<storage, clock, last, writes, lock>>

\* PUT /tasks/{task_id} arrives: TaskUpdate(**body), the dump, and the
\* check for an empty update_dict.
u_start ==
    \E t \in Threads, session_id \in Sessions, task_id \in ConcIds,
       body \in ConcUpdateBodies :
        /\ th[t].pc = "idle"
        /\ LET rec == [Idle EXCEPT !.op = "update", !.sid = session_id,
                                   !.id = task_id]
           IN  Local([th EXCEPT ![t] =
                        IF ~TaskUpdateOk(body) THEN Finish(rec, HttpError(422))
                        ELSE IF DOMAIN TaskUpdateDump(body) = {}
                             THEN Finish(rec, HttpError(400))
                        ELSE [rec EXCEPT !.pc = "lock",
                                         !.arg = TaskUpdateDump(body)]])

\* PATCH /tasks/{task_id}/status arrives: update_task with
\* TaskUpdate(status=status).
p_start ==
    \E t \in Threads, session_id \in Sessions, task_id \in ConcIds,
       status \in ConcPatchStatuses :
        /\ th[t].pc = "idle"
        /\ LET rec == [Idle EXCEPT !.op = "patch", !.sid = session_id,
                                   !.id = task_id]
           IN  Local([th EXCEPT ![t] =
                        IF status \notin TaskStatus THEN Finish(rec, HttpError(422))
                        ELSE [rec EXCEPT !.pc = "lock",
                                         !.arg = [status |-> Some(status)]]])

\* DELETE /tasks/{task_id} arrives.
d_start ==
    \E t \in Threads, session_id \in Sessions, task_id \in ConcIds :
        /\ th[t].pc = "idle"
        /\ Local([th EXCEPT ![t] =
                    [Idle EXCEPT !.pc = "lock", !.op = "delete",
                                 !.sid = session_id, !.id = task_id]])

\* DELETE /tasks arrives.
da_start ==
    \E t \in Threads, session_id \in Sessions :
        /\ th[t].pc = "idle"
        /\ Local([th EXCEPT ![t] =
                    [Idle EXCEPT !.pc = "lock", !.op = "delete_all",
                                 !.sid = session_id]])

\* with SESSION_LOCK, were the lock handed to a thread while another holds it.
acquire_NoWait ==
    \E t \in Threads :
        /\ th[t].pc = "lock"
        /\ lock' = t
        /\ th' = Observe(
              [th EXCEPT ![t].pc = CASE th[t].op = "create" -> "c_append"
                                     [] th[t].op \in {"update", "patch"} -> "u_merge"
                                     [] th[t].op = "delete" -> "d_remove"
                                     [] th[t].op = "delete_all" -> "da_clear",
                         ![t].ord = 1 + Cardinality({u \in Threads : th[u].ord > 0})],
              storage)
        /\ UNCHANGED <<storage, clock, nextId, last, writes, owner>>

\* with SESSION_LOCK: the thread waits until the lock is free and takes it.
\* ord notes how many threads took the lock before, this one counted.
acquire ==
    \E t \in Threads :
        /\ th[t].pc = "lock"
        /\ lock = ""
        /\ lock' = t
        /\ th' = Observe(
              [th EXCEPT ![t].pc = CASE th[t].op = "create" -> "c_append"
                                     [] th[t].op \in {"update", "patch"} -> "u_merge"
                                     [] th[t].op = "delete" -> "d_remove"
                                     [] th[t].op = "delete_all" -> "da_clear",
                         ![t].ord = 1 + Cardinality({u \in Threads : th[u].ord > 0})],
              storage)
        /\ UNCHANGED <<storage, clock, nextId, last, writes, owner>>

\* InMemoryTaskRepository.create under the lock: the list of the session,
\* made when there is none, gets task_dict itself; the lock is released.
c_append ==
    \E t \in Threads :
        /\ th[t].pc = "c_append"
        /\ lock = t
        /\ storage' = create(storage, th[t].sid, Deref(storage, th[t].ref[1]))
        /\ lock' = ""
        /\ th' = Observe(
              [th EXCEPT ![t].pc = "c_return",
                         ![t].ref = Some(Live(th[t].sid, th[t].id))],
              storage')
        /\ UNCHANGED <<clock, nextId, last, writes, owner>>

\* return Task(**created), after the lock: created is the dict in the list.
c_return ==
    \E t \in Threads :
        /\ th[t].pc = "c_return"
        /\ Local([th EXCEPT ![t] =
                    Finish(th[t], Returned(Deref(storage, th[t].ref[1]), 201))])

\* task.update(updates)
DictUpdate(task, updates) ==
    [k \in DOMAIN task \cup DOMAIN updates |->
        IF k \in DOMAIN updates THEN updates[k] ELSE task[k]]

\* u_merge, were the lock kept when the id is not in the list.
u_merge_KeepsLock ==
    \E t \in Threads :
        /\ th[t].pc = "u_merge"
        /\ lock = t
        /\ LET tasks == Get(storage, th[t].sid, << >>)
               i == FirstWithId(tasks, th[t].id)
           IN  IF i = 0
               THEN /\ storage' = storage
                    /\ lock' = lock
                    /\ th' = Observe([th EXCEPT ![t] = Finish(th[t], HttpError(404))],
                                     storage)
               ELSE /\ storage' = [storage EXCEPT
                                     ![th[t].sid][i] = DictUpdate(@, th[t].arg)]
                    /\ lock' = lock
                    /\ th' = Observe(
                          [th EXCEPT ![t].pc = "u_stamp",
                                     ![t].ref = Some(Live(th[t].sid, th[t].id)),
                                     ![t].before = Some(tasks[i])],
                          storage')
        /\ UNCHANGED <<clock, nextId, last, writes, owner>>

\* InMemoryTaskRepository.update under the lock, up to task.update(updates).
\* When the id is not in the list nothing is written, the lock is released
\* and update_task raises 404. before notes the dict as it was.
u_merge ==
    \E t \in Threads :
        /\ th[t].pc = "u_merge"
        /\ lock = t
        /\ LET tasks == Get(storage, th[t].sid, << >>)
               i == FirstWithId(tasks, th[t].id)
           IN  IF i = 0
               THEN /\ storage' = storage
                    /\ lock' = ""
                    /\ th' = Observe([th EXCEPT ![t] = Finish(th[t], HttpError(404))],
                                     storage)
               ELSE /\ storage' = [storage EXCEPT
                                     ![th[t].sid][i] = DictUpdate(@, th[t].arg)]
                    /\ lock' = lock
                    /\ th' = Observe(
                          [th EXCEPT ![t].pc = "u_stamp",
                                     ![t].ref = Some(Live(th[t].sid, th[t].id)),
                                     ![t].before = Some(tasks[i])],
                          storage')
        /\ UNCHANGED <<clock, nextId, last, writes, owner>>

\* u_stamp, were the stamp the instant 0 and not the one the clock shows.
u_stamp_Epoch ==
    \E t \in Threads :
        /\ th[t].pc = "u_stamp"
        /\ lock = t
        /\ LET i == FirstWithId(storage[th[t].sid], th[t].id)
           IN  /\ storage' = [storage EXCEPT
                                ![th[t].sid][i].updated_at = IsoFormat(0)]
               /\ th' = Observe(
                     [th EXCEPT ![t].pc = "u_return",
                                ![t].after = Some(storage'[th[t].sid][i])],
                     storage')
        /\ lock' = ""
        /\ UNCHANGED <<clock, nextId, last, writes, owner>>

\* task["updated_at"] = datetime.utcnow().isoformat(), and the release of
\* the lock. after notes the dict as the update leaves it.
u_stamp ==
    \E t \in Threads :
        /\ th[t].pc = "u_stamp"
        /\ lock = t
        /\ LET i == FirstWithId(storage[th[t].sid], th[t].id)
           IN  /\ storage' = [storage EXCEPT
                                ![th[t].sid][i].updated_at = IsoFormat(clock)]
               /\ th' = Observe(
                     [th EXCEPT ![t].pc = "u_return",
                                ![t].after = Some(storage'[th[t].sid][i])],
                     storage')
        /\ lock' = ""
        /\ UNCHANGED <<clock, nextId, last, writes, owner>>

\* return Task(**updated), after the lock: updated is the dict in the list.
u_return ==
    \E t \in Threads :
        /\ th[t].pc = "u_return"
        /\ Local([th EXCEPT ![t] =
                    Finish(th[t], Returned(Deref(storage, th[t].ref[1]), 200))])

\* InMemoryTaskRepository.delete under the lock, and what delete_task makes
\* of its result.
d_remove ==
    \E t \in Threads :
        /\ th[t].pc = "d_remove"
        /\ lock = t
        /\ LET r == delete_task(storage, th[t].sid, th[t].id)
           IN  /\ storage' = r.storage
               /\ th' = Observe(
                     Settle([th EXCEPT ![t] = Finish(th[t], r.resp)],
                            storage, r.storage, ""),
                     r.storage)
        /\ lock' = ""
        /\ UNCHANGED <<clock, nextId, last, writes, owner>>

\* delete_all_tasks under the lock: the session's list is replaced by a new
\* empty list.
da_clear ==
    \E t \in Threads :
        /\ th[t].pc = "da_clear"
        /\ lock = t
        /\ LET st2 == delete_all_tasks(storage, th[t].sid)
           IN  /\ storage' = st2
               /\ th' = Observe(
                     Settle([th EXCEPT ![t] = Finish(th[t], Response(204, << >>))],
                            storage, st2,
                            IF th[t].sid \in DOMAIN storage THEN th[t].sid ELSE ""),
                     st2)
        /\ lock' = ""
        /\ UNCHANGED <<clock, nextId, last, writes, owner>>

\* GET /tasks/{task_id} arrives: find_by_id takes the session's list.
g_start ==
    \E t \in Threads, session_id \in Sessions, task_id \in ConcIds :
        /\ th[t].pc = "idle"
        /\ Local([th EXCEPT ![t] =
                    [Idle EXCEPT !.pc = "g_scan", !.op = "get",
                                 !.sid = session_id, !.id = task_id,
                                 !.list = GetList(storage, session_id), !.i = 1]])

\* One turn of next(t for t in tasks if t["id"] == task_id): the element at
\* the iterator's index, or the end of the list, which is None and 404.
g_scan ==
    \E t \in Threads :
        /\ th[t].pc = "g_scan"
        /\ LET items == Items(storage, th[t].list)
               i == th[t].i
           IN  Local([th EXCEPT ![t] =
                        IF i > Len(items) THEN Finish(th[t], HttpError(404))
                        ELSE IF Deref(storage, items[i]).id = th[t].id
                             THEN [th[t] EXCEPT !.pc = "g_return",
                                                !.ref = Some(items[i])]
                        ELSE [th[t] EXCEPT !.i = i + 1]])

\* return Task(**task)
g_return ==
    \E t \in Threads :
        /\ th[t].pc = "g_return"
        /\ Local([th EXCEPT ![t] =
                    Finish(th[t], Returned(Deref(storage, th[t].ref[1]), 200))])

\* GET /tasks arrives: find_all returns the session's list.
l_start ==
    \E t \in Threads, session_id \in Sessions, status \in ConcFilters :
        /\ th[t].pc = "idle"
        /\ Local([th EXCEPT ![t] =
                    [Idle EXCEPT
                       !.pc = IF ~IsNone(status) /\ Val(status) # ""
                              THEN "l_filter" ELSE "build",
                       !.op = "list", !.sid = session_id, !.arg = status,
                       !.list = GetList(storage, session_id), !.i = 1]])

\* One turn of [t for t in tasks if t["status"] == status]; at the end of
\* the list, tasks is the list built.
l_filter ==
    \E t \in Threads :
        /\ th[t].pc = "l_filter"
        /\ LET items == Items(storage, th[t].list)
               i == th[t].i
           IN  Local([th EXCEPT ![t] =
                        IF i > Len(items)
                        THEN [th[t] EXCEPT !.pc = "build",
                                           !.list = LocalList(th[t].sel),
                                           !.sel = << >>, !.i = 1]
                        ELSE IF Deref(storage, items[i]).status = th[t].arg
                             THEN [th[t] EXCEPT !.sel = Append(@, items[i]),
                                                !.i = i + 1]
                        ELSE [th[t] EXCEPT !.i = i + 1]])

\* GET /tasks/search arrives: the check of the length of q, then find_all.
q_start ==
    \E t \in Threads, session_id \in Sessions, q \in ConcQueries :
        /\ th[t].pc = "idle"
        /\ LET rec == [Idle EXCEPT !.op = "search", !.sid = session_id,
                                   !.arg = q]
           IN  Local([th EXCEPT ![t] =
                        IF Len(q) < QueryMinLength THEN Finish(rec, HttpError(400))
                        ELSE [rec EXCEPT !.pc = "q_filter",
                                         !.list = GetList(storage, session_id),
                                         !.i = 1]])

\* One turn of the comprehension of search_tasks; at the end of the list,
\* the list built is the one the tasks are returned from.
q_filter ==
    \E t \in Threads :
        /\ th[t].pc = "q_filter"
        /\ LET items == Items(storage, th[t].list)
               i == th[t].i
           IN  Local([th EXCEPT ![t] =
                        IF i > Len(items)
                        THEN [th[t] EXCEPT !.pc = "build",
                                           !.list = LocalList(th[t].sel),
                                           !.sel = << >>, !.i = 1]
                        ELSE IF IsNone(Deref(storage, items[i]).title)
                             THEN Finish(th[t], InternalError)
                        ELSE IF SearchMatch(Deref(storage, items[i]),
                                            Lower(th[t].arg))
                             THEN [th[t] EXCEPT !.sel = Append(@, items[i]),
                                                !.i = i + 1]
                        ELSE [th[t] EXCEPT !.i = i + 1]])

\* One turn of [Task(**t) for t in tasks], for the list and the search.
build ==
    \E t \in Threads :
        /\ th[t].pc = "build"
        /\ LET items == Items(storage, th[t].list)
               i == th[t].i
           IN  Local([th EXCEPT ![t] =
                        IF i > Len(items) THEN Finish(th[t], Response(200, th[t].acc))
                        ELSE IF TaskOk(Deref(storage, items[i]))
                             THEN [th[t] EXCEPT
                                     !.acc = Append(@, ToTask(Deref(storage, items[i]))),
                                     !.i = i + 1]
                        ELSE Finish(th[t], InternalError)])

\* GET /tasks/stats arrives: find_all returns the session's list.
s_start ==
    \E t \in Threads, session_id \in Sessions :
        /\ th[t].pc = "idle"
        /\ Local([th EXCEPT ![t] =
                    [Idle EXCEPT !.pc = "s_count", !.op = "stats",
                                 !.sid = session_id,
                                 !.list = GetList(storage, session_id)]])

\* The statuses get_statistics counts, in the order it counts them.
StatsOrder == <<"PENDING", "IN_PROGRESS", "COMPLETED", "CANCELLED">>

\* The next entry of the stats dict: len(tasks), then one sum for each
\* status, each over the list as it is when the sum is taken (a sum is
\* taken here in one step). After the last, TaskStats(**stats).
s_count ==
    \E t \in Threads :
        /\ th[t].pc = "s_count"
        /\ LET items == Items(storage, th[t].list)
               tasks == [k \in 1..Len(items) |-> Deref(storage, items[k])]
               n == Len(th[t].acc)
               acc == Append(th[t].acc,
                             IF n = 0 THEN Len(tasks)
                             ELSE CountStatus(tasks, StatsOrder[n]))
           IN  Local([th EXCEPT ![t] =
                        IF Len(acc) <= Len(StatsOrder)
                        THEN [th[t] EXCEPT !.acc = acc]
                        ELSE Finish(th[t],
                               Response(200,
                                 <<[total       |-> acc[1],
                                    pending     |-> acc[2],
                                    in_progress |-> acc[3],
                                    completed   |-> acc[4],
                                    cancelled   |-> acc[5]]>>))])

ConcNext ==
    \/ Tick
    \/ c_start
    \/ u_start
    \/ p_start
    \/ d_start
    \/ da_start
    \/ acquire
    \/ c_append
    \/ c_return
    \/ u_merge
    \/ u_stamp
    \/ u_return
    \/ d_remove
    \/ da_clear
    \/ g_start
    \/ g_scan
    \/ g_return
    \/ l_start
    \/ l_filter
    \/ q_start
    \/ q_filter
    \/ build
    \/ s_start
    \/ s_count

ConcSpec == ConcInit /\ [][ConcNext]_vars

\* A step of the request thread t serves: the step of the handler at the
\* position the thread is at, which moves its position, its iterator or
\* what it has built so far.
Runs(t) ==
    /\ \/ th[t].pc = "lock" /\ acquire
       \/ th[t].pc = "c_append" /\ c_append
       \/ th[t].pc = "c_return" /\ c_return
       \/ th[t].pc = "u_merge" /\ u_merge
       \/ th[t].pc = "u_stamp" /\ u_stamp
       \/ th[t].pc = "u_return" /\ u_return
       \/ th[t].pc = "d_remove" /\ d_remove
       \/ th[t].pc = "da_clear" /\ da_clear
       \/ th[t].pc = "g_scan" /\ g_scan
       \/ th[t].pc = "g_return" /\ g_return
       \/ th[t].pc = "l_filter" /\ l_filter
       \/ th[t].pc = "q_filter" /\ q_filter
       \/ th[t].pc = "build" /\ build
       \/ th[t].pc = "s_count" /\ s_count
    /\ <<th'[t].pc, th'[t].i, th'[t].acc>> # <<th[t].pc, th[t].i, th[t].acc>>

\* The number of tasks the requests find under fair scheduling.
FairPreset == 1

\* The concurrent requests under fair scheduling, with FairPreset tasks
\* stored when they arrive: a worker thread that can take a step (one that
\* waits for the lock can when the lock is free) is not left aside for
\* ever. Nothing obliges a request to arrive or the clock to move.
FairInit == ConcInit /\ nextId = FairPreset + 1

FairSpec ==
    FairInit /\ [][ConcNext]_vars /\ \A t \in Threads : WF_vars(Runs(t))

\* ---------------------------------------------------- the claims' terms
\* a <= b for two strs (Python compares strs lexicographically by code).
RECURSIVE StrLeq(_, _)
StrLeq(a, b) ==
    IF a = << >> THEN TRUE
    ELSE IF b = << >> THEN FALSE
    ELSE IF Head(a) # Head(b) THEN Head(a) < Head(b)
    ELSE StrLeq(Tail(a), Tail(b))

\* The bodies the models accept.
AcceptedCreates == {b \in CreateBodies : TaskCreateOk(b)}
AcceptedUpdates == {b \in UpdateBodies : TaskUpdateOk(b)}

\* The ids of the tasks of a list, and of the tasks a response carries.
IdsOf(tasks) == {tasks[i].id : i \in 1..Len(tasks)}

\* Every response a read under the session can end in.
TaskReads(st, session_id) ==
    {get_all_tasks(st, session_id, f) : f \in StatusFilters}
    \cup {SearchResponse(st, session_id, q) : q \in Queries}
    \cup {get_task_by_id(st, session_id, i) : i \in TaskIds}

\* The storage after every request under the session that can change it.
AfterWrites(st, session_id) ==
    {CreateResult(st, session_id, b, nextId, clock).storage : b \in CreateBodies}
    \cup {UpdateResult(st, session_id, i, b, clock).storage :
             i \in TaskIds, b \in UpdateBodies}
    \cup {PatchResult(st, session_id, i, x, clock).storage :
             i \in TaskIds, x \in PatchStatuses}
    \cup {delete_task(st, session_id, i).storage : i \in TaskIds}
    \cup {delete_all_tasks(st, session_id)}

\* Every update_dict that reaches update_task: the dumps of the bodies
\* TaskUpdate accepts, and TaskUpdate(status=status) of the status patch.
ChangeSets ==
    {TaskUpdateDump(b) : b \in AcceptedUpdates}
    \cup {[status |-> Some(x)] : x \in TaskStatus}

\* The task of the session with the id; the id is in the session's list.
Stored(st, session_id, task_id) == Val(find_by_id(st, session_id, task_id))

\* Whether the session's list holds a task with the id.
Has(st, session_id, task_id) == ~IsNone(find_by_id(st, session_id, task_id))

\* The ids handed out to the creates of the session.
CreatedIn(session_id) == {i \in 1..Len(owner) : owner[i] = session_id}

\* The fields of the one record a statistics response carries.
Stats(st, session_id) == get_statistics(st, session_id).body[1]

\* Whether the task is one search(S, q) is to return: lower(q) is in the
\* lowered title, or the task has a description and lower(q) is in it.
Matches(t, q) ==
    \/ ~IsNone(t.title) /\ Contains(Lower(Val(t.title)), Lower(q))
    \/ ~IsNone(t.description) /\ Contains(Lower(Val(t.description)), Lower(q))

\* ------------------------------------------------------------------- C1
\* C1: session isolation. For two sessions S1 # S2, in every reachable
\* state: no list, search or get under S2 returns a task created in S1,
\* the statistics of S2 count no more tasks than were created in S2, and no
\* create, update, status patch, delete or delete-all under S2 changes the
\* list of S1 or makes S1 known to or unknown to the repository.
C1_SessionIsolation ==
    \A S1 \in Sessions : \A S2 \in Sessions \ {S1} :
        /\ \A r \in TaskReads(storage, S2) : IdsOf(r.body) \cap CreatedIn(S1) = {}
        /\ Stats(storage, S2).total <= Cardinality(CreatedIn(S2))
        /\ Stats(storage, S2).pending + Stats(storage, S2).in_progress
             + Stats(storage, S2).completed + Stats(storage, S2).cancelled
             <= Cardinality(CreatedIn(S2))
        /\ \A st \in AfterWrites(storage, S2) :
              /\ find_all(st, S1) = find_all(storage, S1)
              /\ S1 \in DOMAIN st <=> S1 \in DOMAIN storage

\* Both sessions hold a task, the last request that changed the storage
\* came under s2, and s2 has an update that succeeds from here.
C1_Witness ==
    /\ find_all(storage, "s1") # << >>
    /\ find_all(storage, "s2") # << >>
    /\ last.sid = "s2"
    /\ \E i \in TaskIds, b \in UpdateBodies :
          UpdateResult(storage, "s2", i, b, clock).resp.code = 200

\* ------------------------------------------------------------------- C2
\* C2: create always returns a task with status PENDING, a non-null id and
\* created_at = updated_at, whatever the draft: the last create ended with
\* 201 and the task it returned has the id handed out, the status PENDING
\* and equal timestamps.
C2_CreateReturnsPendingTask ==
    last.op = "create" =>
        /\ last.code = 201
        /\ Len(last.body) = 1
        /\ last.body[1].id = last.id
        /\ last.body[1].status = Some("PENDING")
        /\ last.body[1].created_at = last.body[1].updated_at

\* ------------------------------------------------------------------- C3
\* An update with a change set that is not empty, of an id the session
\* holds: the task keeps its id and created_at, and updated_at becomes the
\* clock's value, which is not below the one it had.
C3_UpdateHoare ==
    \A sid \in Sessions, i \in TaskIds, cs \in ChangeSets :
        (Has(storage, sid, i) /\ DOMAIN cs # {}) =>
            LET old == Stored(storage, sid, i)
                r == update_task(storage, sid, i, cs, clock)
                new == Stored(r.storage, sid, i)
            IN  /\ Has(r.storage, sid, i)
                /\ new.id = old.id
                /\ new.created_at = old.created_at
                /\ new.updated_at = IsoFormat(clock)
                /\ StrLeq(old.updated_at, new.updated_at)

\* One step of the system: a task that stays stored stays in its session,
\* with its created_at, and its updated_at does not go down.
C3_StepKeeps ==
    \A sid \in Sessions : \A k \in 1..Len(find_all(storage, sid)) :
        LET old == find_all(storage, sid)[k]
        IN  \A sid2 \in Sessions : \A k2 \in 1..Len(find_all(storage', sid2)) :
                LET new == find_all(storage', sid2)[k2]
                IN  new.id = old.id =>
                        /\ sid2 = sid
                        /\ new.created_at = old.created_at
                        /\ StrLeq(old.updated_at, new.updated_at)

\* C3: every update that reaches a stored task leaves its id and created_at
\* as they were and rewrites updated_at to a value not below the previous
\* one; and no step of any run changes the id or created_at of a stored
\* task.
C3_UpdateKeepsIdentity == [](C3_UpdateHoare) /\ [][C3_StepKeeps]_vars

\* An update has rewritten updated_at of a task created at an earlier
\* instant, and a later update is possible from here.
C3_Witness ==
    /\ last.op \in {"update", "patch"}
    /\ Has(storage, last.sid, last.id)
    /\ Stored(storage, last.sid, last.id).updated_at
         # Stored(storage, last.sid, last.id).created_at
    /\ Stored(storage, last.sid, last.id).updated_at = IsoFormat(clock)

\* ------------------------------------------------------------------- C4
\* C4: an update whose change set is empty ends with 400 and leaves the
\* whole storage as it was, whether or not the id is in the session's list.
C4_EmptyUpdateBadRequest ==
    \A sid \in Sessions, i \in TaskIds, b \in AcceptedUpdates :
        TaskUpdateDump(b) = [k \in {} |-> None] =>
            LET r == UpdateResult(storage, sid, i, b, clock)
            IN  /\ r.resp = HttpError(400)
                /\ r.storage = storage

\* A task is stored whose updated_at is not the clock's value (a stamp would
\* show), its session also lacks some id, and both updates with an empty
\* change set end with 400.
C4_Witness ==
    \E sid \in Sessions, i \in TaskIds, j \in TaskIds :
        /\ Has(storage, sid, i)
        /\ Stored(storage, sid, i).updated_at # IsoFormat(clock)
        /\ ~Has(storage, sid, j)
        /\ last.op = "create"
        /\ UpdateResult(storage, sid, i, [k \in {} |-> None], clock).resp.code = 400
        /\ UpdateResult(storage, sid, j, [k \in {} |-> None], clock).resp.code = 400

\* ------------------------------------------------------------------- C5
\* C5: partial update. After an update that ends with 200, every field of
\* the change set has the value supplied, in the stored task and in the one
\* returned; every other field of the task but updated_at has the value it
\* had; and every other task of every session is as it was, at its place.
C5_PartialUpdate ==
    \A sid \in Sessions, i \in TaskIds, cs \in ChangeSets :
        LET r == update_task(storage, sid, i, cs, clock)
        IN  r.resp.code = 200 =>
                LET k == FirstWithId(find_all(storage, sid), i)
                    old == find_all(storage, sid)[k]
                    new == find_all(r.storage, sid)[k]
                IN  /\ DOMAIN new = TaskKeys
                    /\ \A f \in DOMAIN cs : new[f] = cs[f]
                    /\ \A f \in DOMAIN cs \ {"title"} : r.resp.body[1][f] = cs[f]
                    /\ \A f \in TaskKeys \ (DOMAIN cs \cup {"updated_at"}) :
                          new[f] = old[f]
                    /\ DOMAIN r.storage = DOMAIN storage
                    /\ \A s2 \in DOMAIN storage :
                          /\ Len(r.storage[s2]) = Len(storage[s2])
                          /\ \A j \in 1..Len(storage[s2]) :
                                (s2 # sid \/ j # k) =>
                                    r.storage[s2][j] = storage[s2][j]

\* A session holds two tasks, one of them with a description, a priority
\* and a due date that are not the defaults, and an update of that task that
\* names none of these fields ends with 200.
C5_Witness ==
    \E sid \in Sessions, i \in TaskIds, cs \in ChangeSets :
        /\ Len(find_all(storage, sid)) = 2
        /\ Has(storage, sid, i)
        /\ Stored(storage, sid, i).description # None
        /\ Stored(storage, sid, i).priority # Some(PriorityDefault)
        /\ Stored(storage, sid, i).due_date # None
        /\ DOMAIN cs \cap {"description", "priority", "due_date"} = {}
        /\ update_task(storage, sid, i, cs, clock).resp.code = 200
        /\ last.op = "create"

\* ------------------------------------------------------------------- C6
\* C6: for an id that is not in the list of the caller's session (also when
\* another session holds it, or the session is unknown), get, update with a
\* change set that is not empty, status patch and delete end with 404 and
\* leave the storage as it was, its set of known sessions included.
C6_AbsentIdNotFound ==
    \A sid \in Sessions, i \in TaskIds :
        ~Has(storage, sid, i) =>
            /\ get_task_by_id(storage, sid, i) = HttpError(404)
            /\ \A b \in AcceptedUpdates :
                  DOMAIN TaskUpdateDump(b) # {} =>
                      UpdateResult(storage, sid, i, b, clock)
                        = [storage |-> storage, resp |-> HttpError(404)]
            /\ \A x \in TaskStatus :
                  PatchResult(storage, sid, i, x, clock)
                    = [storage |-> storage, resp |-> HttpError(404)]
            /\ delete_task(storage, sid, i)
                 = [storage |-> storage, resp |-> HttpError(404)]

\* s1 holds a task whose id s2 asks for, and the repository has never seen
\* s2.
C6_Witness ==
    \E i \in TaskIds :
        /\ Has(storage, "s1", i)
        /\ "s2" \notin DOMAIN storage
        /\ last.op = "create"
        /\ delete_task(storage, "s2", i).resp.code = 404

\* ------------------------------------------------------------------- C7
\* The delete of an id the session holds ends with 204, and from the
\* storage it leaves, the next delete of the same id and the get of it end
\* with 404.
C7_DeleteHoare ==
    \A sid \in Sessions, i \in TaskIds :
        Has(storage, sid, i) =>
            LET r == delete_task(storage, sid, i)
            IN  /\ r.resp.code = 204
                /\ delete_task(r.storage, sid, i)
                     = [storage |-> r.storage, resp |-> HttpError(404)]
                /\ get_task_by_id(r.storage, sid, i) = HttpError(404)

\* One step of the system: an id that was handed out and is not in a
\* session's list is not in it afterwards.
C7_StaysAbsent ==
    \A sid \in Sessions, i \in 1..Len(owner) :
        ~Has(storage, sid, i) => ~Has(storage', sid, i)

\* C7: delete is not idempotent. The first delete of an id the session
\* holds succeeds and the delete of the same id that follows it ends with
\* 404; after a delete that succeeded the get of the id ends with 404, and
\* keeps doing so to the end of the run, since an id that has left a list
\* never comes back.
C7_DeleteNotIdempotent ==
    /\ [](C7_DeleteHoare)
    /\ [](last.op = "delete" =>
            /\ last.code = 204
            /\ delete_task(storage, last.sid, last.id).resp.code = 404
            /\ get_task_by_id(storage, last.sid, last.id).code = 404)
    /\ [][C7_StaysAbsent]_vars

\* A delete has removed the task a create of the session had stored.
C7_Witness ==
    /\ last.op = "delete"
    /\ last.code = 204
    /\ ~Has(storage, last.sid, last.id)
    /\ owner[last.id] = last.sid

\* ------------------------------------------------------------------- C8
\* C8: in every reachable state the statistics of a session have
\* pending + in_progress + completed + cancelled = total, total the number
\* of the session's tasks and every bucket the number of tasks with that
\* status.
C8_StatsConsistent ==
    \A sid \in Sessions :
        LET x == Stats(storage, sid)
            tasks == find_all(storage, sid)
        IN  /\ x.total = Len(tasks)
            /\ x.pending + x.in_progress + x.completed + x.cancelled = x.total
            /\ x.pending = CountStatus(tasks, "PENDING")
            /\ x.in_progress = CountStatus(tasks, "IN_PROGRESS")
            /\ x.completed = CountStatus(tasks, "COMPLETED")
            /\ x.cancelled = CountStatus(tasks, "CANCELLED")

\* ------------------------------------------------------------------- C9
\* C9: round trip. For every draft the API accepts, create returns a task,
\* and as long as no request has changed the storage since, the get of its
\* id returns a task equal to it, field by field.
C9_RoundTrip ==
    last.op = "create" =>
        /\ last.code = 201
        /\ get_task_by_id(storage, last.sid, last.id) = Response(200, last.body)

\* ------------------------------------------------------------------ C10
\* C10: in every reachable state, a search with a query of fewer than two
\* characters ends with 400, and any other search succeeds and returns
\* exactly the session's tasks that match, in the list's order.
C10_SearchExact ==
    \A sid \in Sessions, q \in Queries :
        LET r == SearchResponse(storage, sid, q)
            Keep(t) == Matches(t, q)
            hits == SelectSeq(find_all(storage, sid), Keep)
        IN  IF Len(q) < 2 THEN r = HttpError(400)
            ELSE /\ r.code = 200
                 /\ [j \in 1..Len(r.body) |-> r.body[j].id]
                      = [j \in 1..Len(hits) |-> hits[j].id]

\* ------------------------------------------------------------------ C11
\* C11: list with a status filter f returns exactly the session's tasks
\* whose status is f, by exact match and in the list's order (so the empty
\* sequence when no task has it); list with no filter returns every task of
\* the session.
C11_ListFilter ==
    \A sid \in Sessions, f \in StatusFilters :
        LET r == get_all_tasks(storage, sid, f)
            tasks == find_all(storage, sid)
            Keep(t) == t.status = f
            want == IF IsNone(f) THEN tasks ELSE SelectSeq(tasks, Keep)
        IN  /\ r.code = 200
            /\ [j \in 1..Len(r.body) |-> r.body[j].id]
                 = [j \in 1..Len(want) |-> want[j].id]
            /\ ~IsNone(f) => \A j \in 1..Len(r.body) : r.body[j].status = f

\* ------------------------------------------------------------------ C12
\* Every partition holds exactly the tasks created in it, each once.
NoLostInsert ==
    \A sid \in Sessions :
        /\ IdsOf(find_all(storage, sid)) = CreatedIn(sid)
        /\ Len(find_all(storage, sid)) = Cardinality(CreatedIn(sid))

\* C12: no lost insert. When the two threads have served a create each, in
\* the same session (with or without a partition) or in two sessions, under
\* whatever interleaving, both creates have succeeded (201) and every
\* partition holds exactly the tasks created in it.
C12_NoLostInsert ==
    (\A t \in Threads : th[t].op = "create" /\ th[t].pc = "done") =>
        /\ \A t \in Threads : th[t].resp.code = 201
        /\ NoLostInsert

\* ------------------------------------------------------------------ C13
\* The two threads have served an update or a status patch each, of the
\* same task, which was stored.
TwoUpdates(t, u) ==
    /\ t # u
    /\ th[t].op \in {"update", "patch"} /\ th[u].op \in {"update", "patch"}
    /\ th[t].pc = "done" /\ th[u].pc = "done"
    /\ th[t].sid = th[u].sid /\ th[t].id = th[u].id
    /\ th[t].ord < th[u].ord
    /\ ~IsNone(th[t].before) /\ ~IsNone(th[u].before)

\* C13: no lost update. When two updates of the same task have been served
\* concurrently, both have reported success and the stored task carries
\* every field either of them wrote: for a field both wrote, the value of
\* the update that took the lock last.
C13_NoLostUpdate ==
    \A t \in Threads, u \in Threads :
        TwoUpdates(t, u) =>
            LET task == Stored(storage, th[t].sid, th[t].id)
            IN  /\ th[t].resp.code = 200
                /\ th[u].resp.code = 200
                /\ \A f \in DOMAIN th[u].arg : task[f] = th[u].arg[f]
                /\ \A f \in DOMAIN th[t].arg \ DOMAIN th[u].arg :
                      task[f] = th[t].arg[f]

\* ------------------------------------------------------------------ C14
\* The task as the API returns it, when the dict validates.
AsTask(o) == IF ~IsNone(o) /\ TaskOk(Val(o)) THEN {ToTask(Val(o))} ELSE {}

\* C14: an update is atomic for its readers. A get that has returned the
\* task while an update of the same task was served returned either the
\* record as it was before the update or the record as the update left it,
\* with the new updated_at.
C14_AtomicUpdate ==
    \A r \in Threads, u \in Threads :
        ( /\ th[r].op = "get" /\ th[r].pc = "done" /\ th[r].resp.code = 200
          /\ th[u].op \in {"update", "patch"}
          /\ th[u].sid = th[r].sid /\ th[u].id = th[r].id
          /\ ~IsNone(th[u].after) ) =>
            th[r].resp.body[1] \in AsTask(th[u].before) \cup AsTask(th[u].after)

\* ------------------------------------------------------------------ C15
\* C15: reads never observe a write in progress. What a list, a search or
\* the statistics returned is what the same query answers on the storage
\* as it stood at one instant between the start of the call and its
\* return.
C15_ReadsSeeOneInstant ==
    \A t \in Threads :
        (th[t].op \in {"list", "search", "stats"} /\ th[t].pc = "done"
           /\ th[t].resp.code # 400) =>
            th[t].resp \in th[t].snaps

\* ------------------------------------------------------------------ C16
\* The titles the bodies carry whose length after trimming is outside
\* 3..200.
BadTitle(body) ==
    /\ "title" \in DOMAIN body
    /\ ~IsNone(body.title)
    /\ \/ Len(Strip(Val(body.title))) < TitleMinLength
       \/ Len(Strip(Val(body.title))) > TitleMaxLength

\* C16: title invariant. Every stored title is stored trimmed and has 3 to
\* 200 characters; and a create or an update whose title has a trimmed
\* length outside 3..200 is refused with 422 and stores nothing.
C16_TitleInvariant ==
    /\ \A sid \in Sessions : \A k \in 1..Len(find_all(storage, sid)) :
          LET title == find_all(storage, sid)[k].title
          IN  ~IsNone(title) =>
                  /\ Strip(Val(title)) = Val(title)
                  /\ Len(Val(title)) >= TitleMinLength
                  /\ Len(Val(title)) <= TitleMaxLength
    /\ \A sid \in Sessions, b \in CreateBodies :
          BadTitle(b) =>
              CreateResult(storage, sid, b, nextId, clock)
                = [storage |-> storage, resp |-> HttpError(422)]
    /\ \A sid \in Sessions, i \in TaskIds, b \in UpdateBodies :
          BadTitle(b) =>
              UpdateResult(storage, sid, i, b, clock)
                = [storage |-> storage, resp |-> HttpError(422)]

\* ------------------------------------------------------------------ C17
\* C17: entity invariant. In every reachable state every stored task has a
\* title that is not null, a priority in 1..4, a status of the enumeration
\* and tags that are a sequence.
C17_EntityInvariant ==
    \A sid \in Sessions : \A k \in 1..Len(find_all(storage, sid)) :
        LET t == find_all(storage, sid)[k]
        IN  /\ ~IsNone(t.title)
            /\ PriorityOk(t.priority)
            /\ ~IsNone(t.status) /\ Val(t.status) \in TaskStatus
            /\ ~IsNone(t.tags)

\* ------------------------------------------------------------------ C18
\* C18: a create or an update that does not return a task leaves the
\* storage as it was. From every reachable state, every create, update or
\* status patch that ends with 422, 400 or 404 returns the storage it was
\* given; and every create, update or status patch that has changed the
\* storage ended with 201 or 200 (none ended with 500).
C18_NoPartialState ==
    /\ \A sid \in Sessions, b \in CreateBodies :
          LET r == CreateResult(storage, sid, b, nextId, clock)
          IN  r.resp.code \in {422, 400, 404} => r.storage = storage
    /\ \A sid \in Sessions, i \in TaskIds, b \in UpdateBodies :
          LET r == UpdateResult(storage, sid, i, b, clock)
          IN  r.resp.code \in {422, 400, 404} => r.storage = storage
    /\ \A sid \in Sessions, i \in TaskIds, x \in PatchStatuses :
          LET r == PatchResult(storage, sid, i, x, clock)
          IN  r.resp.code \in {422, 400, 404} => r.storage = storage
    /\ last.op = "create" => last.code = 201
    /\ last.op \in {"update", "patch"} => last.code = 200

\* ------------------------------------------------------------------ C19
\* C19: in every reachable state, list (with any filter), search with a
\* query of two characters or more, and statistics end with 200 for every
\* session, and list and search return a sequence of tasks of the session.
C19_ReadsNeverFail ==
    \A sid \in Sessions :
        /\ \A f \in StatusFilters :
              /\ get_all_tasks(storage, sid, f).code = 200
              /\ IdsOf(get_all_tasks(storage, sid, f).body)
                   \subseteq IdsOf(find_all(storage, sid))
        /\ \A q \in Queries :
              Len(q) >= QueryMinLength =>
                  /\ SearchResponse(storage, sid, q).code = 200
                  /\ IdsOf(SearchResponse(storage, sid, q).body)
                       \subseteq IdsOf(find_all(storage, sid))
        /\ get_statistics(storage, sid).code = 200

\* ------------------------------------------------------------------ C20
\* C20: delete-all under a session leaves the session with an empty list
\* (list returns the empty sequence and statistics a total of 0), leaves
\* the list of every other session as it was, and neither gives a
\* partition to a session that has none nor takes one away; and after a
\* delete-all that changed the storage the session's list is empty.
C20_DeleteAll ==
    /\ \A sid \in Sessions :
          LET st == delete_all_tasks(storage, sid)
          IN  /\ find_all(st, sid) = << >>
              /\ get_all_tasks(st, sid, None) = Response(200, << >>)
              /\ Stats(st, sid)
                   = [total |-> 0, pending |-> 0, in_progress |-> 0,
                      completed |-> 0, cancelled |-> 0]
              /\ DOMAIN st = DOMAIN storage
              /\ \A s2 \in DOMAIN storage \ {sid} : st[s2] = storage[s2]
    /\ last.op = "delete_all" =>
          /\ last.code = 204
          /\ find_all(storage, last.sid) = << >>
          /\ last.sid \in DOMAIN storage

\* A delete-all has emptied the list of a session that held a task, and a
\* delete-all under the other session, which the repository has not seen,
\* is a no-op.
C20_Witness ==
    /\ last.op = "delete_all"
    /\ last.code = 204
    /\ DOMAIN storage = {last.sid}
    /\ find_all(storage, last.sid) = << >>
    /\ owner # << >>
    /\ \A s2 \in Sessions \ {last.sid} : delete_all_tasks(storage, s2) = storage

\* ------------------------------------------------------------------ C21
\* C21: a delete that ends with 204 removes the task with the id and nothing
\* else. The session's list is one task shorter, no task of it has the id,
\* the tasks before the one removed and the tasks after it are the ones
\* that were there, in their order and with their fields, and the list of
\* every other session and the set of known sessions are as they were.
C21_DeleteFrame ==
    \A sid \in Sessions, i \in TaskIds :
        LET r == delete_task(storage, sid, i)
        IN  r.resp.code = 204 =>
                LET old == find_all(storage, sid)
                    new == find_all(r.storage, sid)
                    k == FirstWithId(old, i)
                IN  /\ k # 0
                    /\ Len(new) = Len(old) - 1
                    /\ \A j \in 1..Len(new) : new[j].id # i
                    /\ \A j \in 1..(k - 1) : new[j] = old[j]
                    /\ \A j \in k..Len(new) : new[j] = old[j + 1]
                    /\ DOMAIN r.storage = DOMAIN storage
                    /\ \A s2 \in DOMAIN storage \ {sid} :
                          r.storage[s2] = storage[s2]

\* A session holds two tasks, and the delete of the first of them ends with
\* 204 and leaves the second.
C21_Witness ==
    \E sid \in Sessions :
        /\ Len(find_all(storage, sid)) = 2
        /\ last.op = "create"
        /\ LET old == find_all(storage, sid)
               r == delete_task(storage, sid, old[1].id)
           IN  /\ r.resp.code = 204
               /\ find_all(r.storage, sid) = <<old[2]>>

\* ------------------------------------------------------------------ C22
\* C22: no graph of status transitions. For every stored task whose status
\* is one of the four and every status s2 of the four (the task's own
\* status and PENDING after COMPLETED included), the update with the change
\* set {status: s2} and the status patch to s2 end with 200 and leave the
\* task with the status s2.
C22_NoTransitionGraph ==
    \A sid \in Sessions, i \in TaskIds, s2 \in TaskStatus :
        (Has(storage, sid, i)
           /\ \E s \in TaskStatus : Stored(storage, sid, i).status = Some(s)) =>
            LET u == UpdateResult(storage, sid, i, [status |-> Some(s2)], clock)
                p == PatchResult(storage, sid, i, s2, clock)
            IN  /\ u.resp.code = 200
                /\ p.resp.code = 200
                /\ Stored(u.storage, sid, i).status = Some(s2)
                /\ Stored(p.storage, sid, i).status = Some(s2)

\* ------------------------------------------------------------------ C23
\* C23: id uniqueness, with an id generator that returns a fresh value on
\* every call. In every reachable state no two tasks of a session's list
\* have the same id, and the same holds of the list every create leaves.
C23_IdsUnique ==
    /\ \A sid \in DOMAIN storage :
          \A j \in 1..Len(storage[sid]), k \in 1..Len(storage[sid]) :
              storage[sid][j].id = storage[sid][k].id => j = k
    /\ \A sid \in Sessions, b \in CreateBodies :
          LET new == find_all(CreateResult(storage, sid, b, nextId, clock).storage,
                              sid)
          IN  \A j \in 1..Len(new), k \in 1..Len(new) :
                  new[j].id = new[k].id => j = k

\* A session holds two tasks that two creates with the same body have
\* stored: the tasks differ in their ids only.
C23_Witness ==
    \E sid \in Sessions :
        /\ Len(find_all(storage, sid)) = 2
        /\ last.op = "create"
        /\ LET l == find_all(storage, sid)
           IN  /\ l[1].id # l[2].id
               /\ \A f \in TaskKeys \ {"id"} : l[1][f] = l[2][f]

\* ------------------------------------------------------------------ C24
\* The storage after every request that changes it, but the delete of the
\* task (session_id, task_id) and the delete-all under session_id.
AfterOtherWrites(st, session_id, task_id) ==
    UNION {
        {CreateResult(st, s, b, nextId, clock).storage : b \in CreateBodies}
        \cup {UpdateResult(st, s, i, b, clock).storage :
                 i \in TaskIds, b \in UpdateBodies}
        \cup {PatchResult(st, s, i, x, clock).storage :
                 i \in TaskIds, x \in PatchStatuses}
        \cup {delete_task(st, s, i).storage :
                 i \in {j \in TaskIds : s # session_id \/ j # task_id}}
        \cup (IF s # session_id THEN {delete_all_tasks(st, s)} ELSE {})
        : s \in Sessions}

\* C24: no implicit expiry. After a create that ended with 201, the get of
\* the new id returns the task; and where the get of an id returns the
\* task, it still returns the task with that id after every create, update
\* and status patch of any session, every delete of another id or under
\* another session and every delete-all under another session: until a
\* delete of the id or a delete-all under its session, the get keeps
\* returning it.
C24_NoImplicitExpiry ==
    /\ (last.op = "create" /\ last.code = 201) =>
           get_task_by_id(storage, last.sid, last.id).code = 200
    /\ \A sid \in Sessions, i \in TaskIds :
          get_task_by_id(storage, sid, i).code = 200 =>
              \A st \in AfterOtherWrites(storage, sid, i) :
                  LET r == get_task_by_id(st, sid, i)
                  IN  /\ r.code = 200
                      /\ r.body[1].id = i

\* ------------------------------------------------------------------ C25
\* The bodies that carry an explicit null for description, for due_date or
\* for both, and nothing else.
NullBodies ==
    {[description |-> None], [due_date |-> None],
     [description |-> None, due_date |-> None]}

\* C25: unset is not set-to-null. For every stored task, an update whose
\* body carries only explicit nulls for description or due_date is not
\* answered with 400: it ends with 200, the fields it names are null in the
\* stored task and in the one returned, and the one of the two fields it
\* does not name keeps its value; and every update that reaches the task
\* leaves the description and the due date it does not name as they were.
C25_NullIsSet ==
    \A sid \in Sessions, i \in TaskIds :
        Has(storage, sid, i) =>
            LET old == Stored(storage, sid, i)
            IN  /\ \A b \in NullBodies :
                      LET r == UpdateResult(storage, sid, i, b, clock)
                          new == Stored(r.storage, sid, i)
                      IN  /\ r.resp.code = 200
                          /\ \A f \in DOMAIN b :
                                /\ new[f] = None
                                /\ r.resp.body[1][f] = None
                          /\ \A f \in {"description", "due_date"} \ DOMAIN b :
                                new[f] = old[f]
                /\ \A cs \in ChangeSets :
                      LET r == update_task(storage, sid, i, cs, clock)
                      IN  \A f \in {"description", "due_date"} \ DOMAIN cs :
                              Stored(r.storage, sid, i)[f] = old[f]

\* ------------------------------------------------------------------ C26
\* The positions inside a "with SESSION_LOCK" block: the insert, the merge
\* and the stamp of an update, the remove and the delete-all.
Critical == {"c_append", "u_merge", "u_stamp", "d_remove", "da_clear"}

\* A thread inside a critical section holds the lock, and no two threads
\* are inside one.
C26_InsideHoldsLock ==
    /\ \A t \in Threads : th[t].pc \in Critical => lock = t
    /\ Cardinality({t \in Threads : th[t].pc \in Critical}) <= 1

\* A step that changes the storage, whatever the session, is taken by the
\* thread that holds the lock, from inside its critical section.
C26_WriterHoldsLock ==
    storage' # storage =>
        /\ lock \in Threads
        /\ th[lock].pc \in Critical
        /\ th'[lock].pc \notin Critical \/ lock' = lock
        /\ \A t \in Threads \ {lock} : th[t].pc \notin Critical

\* C26: mutual exclusion. Insert, update, remove and delete-all of every
\* session run their critical section holding the one lock of the process:
\* at most one thread is inside a critical section at a time, and every
\* write to the storage is a step of the lock holder.
C26_MutualExclusion == [](C26_InsideHoldsLock) /\ [][C26_WriterHoldsLock]_vars

\* One thread is between the merge and the stamp of an update under s1 and
\* holds the lock, while the other, with a create under s2, waits for it.
C26_Witness ==
    \E t \in Threads, u \in Threads :
        /\ th[t].pc = "u_stamp"
        /\ th[t].sid = "s1"
        /\ lock = t
        /\ th[u].pc = "lock"
        /\ th[u].op = "create"
        /\ th[u].sid = "s2"

\* ------------------------------------------------------------------ C27
\* The step of thread t is one of a create's or an update's
\* read-modify-write: the step of create_task that reads the clock, draws
\* the id and builds the task, the insert, the merge of the fields or the
\* stamp of updated_at.
ReadModifyWrite(t) ==
    \/ th[t].pc = "idle" /\ th'[t].op = "create" /\ th'[t].pc = "lock"
    \/ th[t].pc \in {"c_append", "u_merge", "u_stamp"} /\ th'[t].pc # th[t].pc

\* C27: in create and in update, the steps that draw the id, read the clock
\* for created_at and updated_at, merge the fields and write to the list
\* are taken while the thread holds the lock.
C27_WholeSequenceUnderLock ==
    [][\A t \in Threads : ReadModifyWrite(t) => lock = t]_vars

\* ------------------------------------------------------------------ C28
\* The positions at which a handler holds the record that find_by_id,
\* create or update returned, and those at which it holds the list that
\* find_all returned.
HoldsRecord == {"c_return", "u_return", "g_return"}
HoldsList == {"l_filter", "q_filter", "build", "s_count"}

\* The tasks of the list a reference leads to, as they are in st.
ListTasks(st, l) ==
    [k \in 1..Len(Items(st, l)) |-> Deref(st, Items(st, l)[k])]

\* C28: what the repository hands out is a copy. While a handler holds the
\* record that find_by_id, create or update returned (for create also the
\* record it passed in), or the list that find_all returned, no step of
\* another request changes that record or that list.
C28_ReturnedValuesAreCopies ==
    [][\A t \in Threads :
          th'[t].pc = th[t].pc =>
              /\ th[t].pc \in HoldsRecord =>
                    Deref(storage', th'[t].ref[1]) = Deref(storage, th[t].ref[1])
              /\ th[t].pc \in HoldsList =>
                    ListTasks(storage', th'[t].list) = ListTasks(storage, th[t].list)
      ]_vars

\* ------------------------------------------------------------------ C29
\* C29: the task a create or an update returns shows that call's own
\* write, under every interleaving. An update or status patch that ended
\* with 200 returned, for every field of its change set, the value it
\* supplied, and the updated_at its own stamp wrote; a create that ended
\* with 201 returned the status PENDING and created_at = updated_at.
C29_ReturnsOwnWrite ==
    \A t \in Threads :
        th[t].pc = "done" =>
            /\ (th[t].op \in {"update", "patch"} /\ th[t].resp.code = 200) =>
                  /\ \A f \in DOMAIN th[t].arg :
                        th[t].resp.body[1][f] = th[t].arg[f]
                  /\ th[t].resp.body[1].updated_at = Val(th[t].after).updated_at
            /\ (th[t].op = "create" /\ th[t].resp.code = 201) =>
                  /\ th[t].resp.body[1].status = Some("PENDING")
                  /\ th[t].resp.body[1].created_at = th[t].resp.body[1].updated_at

\* ------------------------------------------------------------------ C30
\* Both threads serve a delete of the same id under the same session, and
\* the session held a task with that id when they arrived.
TwoDeletes ==
    /\ th["t1"].op = "delete"
    /\ th["t2"].op = "delete"
    /\ th["t1"].sid = th["t2"].sid
    /\ th["t1"].id = th["t2"].id
    /\ th["t1"].id \in 1..Len(owner)
    /\ owner[th["t1"].id] = th["t1"].sid

\* The storage the two deletes found, and that storage without the task
\* they name.
Found == Preset(Len(owner))
WithoutIt ==
    LET Keep(x) == x.id # th["t1"].id
    IN  [Found EXCEPT ![th["t1"].sid] = SelectSeq(@, Keep)]

\* C30: of two concurrent deletes of the same stored task, under every
\* interleaving, exactly one ends with 204 and the other with 404; the
\* task leaves the list with the delete that succeeds, and every other
\* task stays where it was.
C30_OneDeleteWins ==
    TwoDeletes =>
        LET done == {t \in Threads : th[t].pc = "done"}
            won == {t \in done : th[t].resp.code = 204}
            lost == {t \in done : th[t].resp.code = 404}
        IN  /\ done = won \cup lost
            /\ Cardinality(won) <= 1
            /\ storage = IF won = {} THEN Found ELSE WithoutIt
            /\ won = {} => lost = {}
            /\ done = Threads => Cardinality(won) = 1 /\ Cardinality(lost) = 1

\* Both deletes of the first of two stored tasks are done, one with 204
\* and one with 404, and the second task is the one left.
C30_Witness ==
    /\ TwoDeletes
    /\ Len(owner) = 2
    /\ th["t1"].id = 1
    /\ th["t1"].pc = "done"
    /\ th["t2"].pc = "done"
    /\ {th["t1"].resp.code, th["t2"].resp.code} = {204, 404}
    /\ Len(storage["s1"]) = 1
    /\ storage["s1"][1].id = 2

\* ------------------------------------------------------------------ C31
\* The lock is held only from inside a critical section: a thread that has
\* left one, by whatever way out, has released it, and a thread that waits
\* for the lock does not hold it.
C31_LockReleased ==
    /\ lock \in Threads \cup {""}
    /\ \A t \in Threads : lock = t => th[t].pc \in Critical
    /\ \A t \in Threads : th[t].pc = "lock" => lock # t

\* The requests in progress are never all waiting for a lock that is held:
\* one of them is past the lock or before a step that needs none, or the
\* lock is free.
C31_NoDeadlock ==
    (\E t \in Threads : th[t].pc \notin {"idle", "done"}) =>
        \E t \in Threads :
            /\ th[t].pc \notin {"idle", "done"}
            /\ th[t].pc = "lock" => lock = ""

\* C31: no call blocks for ever. Under fair scheduling every request that
\* has arrived (create, update, status patch, delete, delete-all, and the
\* reads) ends with a response; the lock is released on every way out of
\* a critical section, no thread asks for the lock while it holds it, and
\* there is no deadlock.
C31_EveryCallReturns ==
    /\ [](C31_LockReleased)
    /\ [](C31_NoDeadlock)
    /\ \A t \in Threads : (th[t].pc # "idle") ~> (th[t].pc = "done")

\* An update has left its critical section by the not-found way, with 404,
\* and the other thread, which waited for the lock meanwhile, holds it now.
C31_Witness ==
    \E t \in Threads, u \in Threads :
        /\ th[t].pc = "done"
        /\ th[t].op = "update"
        /\ th[t].resp.code = 404
        /\ th[t].ord = 1
        /\ lock = u
        /\ th[u].ord = 2

\* ------------------------------------------------------------------ C32
\* What the reads answer for a session the repository has never seen: the
\* list, with every filter, and the search, with every q long enough, are
\* empty; the get of every id ends with 404; the statistics are five zeros.
C32_UnseenSession ==
    \A sid \in Sessions \ DOMAIN storage :
        /\ \A f \in StatusFilters :
              get_all_tasks(storage, sid, f) = Response(200, << >>)
        /\ \A q \in Queries :
              Len(q) >= QueryMinLength =>
                  SearchResponse(storage, sid, q) = Response(200, << >>)
        /\ \A i \in TaskIds : get_task_by_id(storage, sid, i) = HttpError(404)
        /\ get_statistics(storage, sid)
             = Response(200, <<[total |-> 0, pending |-> 0, in_progress |-> 0,
                                completed |-> 0, cancelled |-> 0]>>)

\* What a read answers is worked out from the list of its session and from
\* nothing else in the storage: the answer is the one it gives with that
\* list alone in the storage.
C32_AnswersFromList ==
    \A sid \in Sessions :
        LET alone == [s \in {sid} |-> find_all(storage, sid)]
        IN  /\ \A f \in StatusFilters :
                  get_all_tasks(storage, sid, f) = get_all_tasks(alone, sid, f)
            /\ \A q \in Queries :
                  SearchResponse(storage, sid, q) = SearchResponse(alone, sid, q)
            /\ \A i \in TaskIds :
                  get_task_by_id(storage, sid, i) = get_task_by_id(alone, sid, i)
            /\ get_statistics(storage, sid) = get_statistics(alone, sid)

\* A step of one of the four reads leaves the storage as it is, its set of
\* known sessions included, and with it the list every session's reads are
\* answered from.
C32_ReadStep ==
    (list_tasks \/ search \/ get_stats \/ get_task) =>
        /\ storage' = storage
        /\ DOMAIN storage' = DOMAIN storage
        /\ \A sid \in Sessions : find_all(storage', sid) = find_all(storage, sid)

\* C32: reads have no effect. List, get, search and statistics leave the
\* whole storage as it was, also for a session never seen, for which they
\* answer the empty list, 404 and five zeros and which stays unseen; and
\* two reads alike with no write between them answer alike, each answer
\* being worked out from a list the read before it left as it was.
C32_ReadsHaveNoEffect ==
    /\ [](C32_UnseenSession)
    /\ [](C32_AnswersFromList)
    /\ [][C32_ReadStep]_vars

\* s1 holds a task and the repository has not seen s2: the reads under s2
\* answer the empty list, 404 for the id s1 holds and a total of 0.
C32_Witness ==
    /\ DOMAIN storage = {"s1"}
    /\ Len(storage["s1"]) = 1
    /\ get_all_tasks(storage, "s2", None) = Response(200, << >>)
    /\ get_task_by_id(storage, "s2", storage["s1"][1].id) = HttpError(404)
    /\ get_statistics(storage, "s2").body[1].total = 0
    /\ clock = MaxClock

\* ------------------------------------------------------------------ C33
\* The ids of a list of tasks, in the order of the list.
IdSeq(tasks) == [k \in 1..Len(tasks) |-> tasks[k].id]

\* Whether the ids come in the order in which they were handed out, which
\* for requests served one after the other is the order of the inserts.
InInsertOrder(ids) ==
    \A j \in 1..Len(ids), k \in 1..Len(ids) : j < k => ids[j] < ids[k]

C34_UpdatedNotBeforeCreated ==
    \A sid \in DOMAIN storage : \A k \in 1..Len(storage[sid]) :
        StrLeq(storage[sid][k].created_at, storage[sid][k].updated_at)

\* A create read the clock at instant 0 and stored its task, and before it
\* has returned, an update of another thread has stamped the task at a
\* later instant.
C34_Witness ==
    \E t \in Threads, u \in Threads :
        /\ th[t].op = "create"
        /\ th[t].pc = "c_return"
        /\ th[u].op \in {"update", "patch"}
        /\ th[u].pc = "u_return"
        /\ th[u].sid = th[t].sid
        /\ th[u].id = th[t].id
        /\ LET task == Stored(storage, th[t].sid, th[t].id)
           IN  /\ task.created_at = IsoFormat(0)
               /\ task.updated_at = IsoFormat(1)

\* ------------------------------------------------------------------ C35
\* The fields of a task that come from the draft.
DraftFields == {"title", "description", "priority", "tags", "due_date"}

\* C35: create is not idempotent. From every reachable state, a create
\* with a body TaskCreate accepts makes the session's list one task longer,
\* and the same body sent once more, then or at a later instant, makes it
\* one longer again: the list it found is followed by two tasks with
\* different ids and the same draft fields, and the create that answers
\* 201 returns the task it added.
C35_CreateNotIdempotent ==
    \A sid \in Sessions, b \in AcceptedCreates, now2 \in clock..MaxClock :
        LET old == find_all(storage, sid)
            r1 == CreateResult(storage, sid, b, nextId, clock)
            r2 == CreateResult(r1.storage, sid, b, nextId + 1, now2)
            one == find_all(r1.storage, sid)
            two == find_all(r2.storage, sid)
        IN  /\ Len(one) = Len(old) + 1
            /\ Len(two) = Len(old) + 2
            /\ SubSeq(two, 1, Len(old)) = old
            /\ two[Len(old) + 1] = one[Len(old) + 1]
            /\ two[Len(old) + 1].id # two[Len(old) + 2].id
            /\ \A f \in DraftFields :
                  two[Len(old) + 1][f] = two[Len(old) + 2][f]
            /\ r1.resp.code = r2.resp.code
            /\ r1.resp.code = 201 =>
                  /\ r1.resp.body[1].id = nextId
                  /\ r2.resp.body[1].id = nextId + 1
                  /\ \A f \in DraftFields : r1.resp.body[1][f] = r2.resp.body[1][f]

\* The same draft was created twice under a session, at two instants, and
\* the second create answered 201: the list holds two tasks that differ in
\* their ids and their timestamps and in no draft field.
C35_Witness ==
    \E sid \in Sessions :
        LET l == find_all(storage, sid)
        IN  /\ Len(l) = 2
            /\ last.op = "create"
            /\ last.code = 201
            /\ last.sid = sid
            /\ last.id = l[2].id
            /\ l[1].id # l[2].id
            /\ l[1].created_at # l[2].created_at
            /\ \A f \in DraftFields : l[1][f] = l[2][f]

====
